---- MODULE Spec2Model ----
(***************************************************************************)
(* Model of src/src/session.c (lightdm Session): the start / rollback      *)
(* protocol, the stop protocol, the termination notification and the       *)
(* child's pre-exec sequence.                                              *)
(*                                                                         *)
(* Strings are sequences of atoms (an atom is a character or an opaque     *)
(* fragment), so that splitting and joining are computed, not assumed.     *)
(* A NULL pointer is the distinguished value NULL.                         *)
(***************************************************************************)
EXTENDS Integers, Sequences, FiniteSets, TLC

VARIABLES
    uid,                    \* getuid () of the service process
    inherited_cookie,       \* g_getenv ("XDG_SESSION_COOKIE") of the service
    authentication,         \* priv->authentication
    command,                \* priv->command
    log_file,               \* priv->log_file
    log_file_as_user,       \* priv->log_file_as_user
    is_greeter,             \* priv->is_greeter
    console_kit_parameters, \* priv->console_kit_parameters
    console_kit_cookie,     \* priv->console_kit_cookie
    env,                    \* environment of the Process base object
    process_command,        \* command of the Process base object
    is_running,             \* process_get_is_running ()
    pam_opens,              \* pam_session_open calls that succeeded
    pam_closes,             \* pam_session_close calls
    ck_open,                \* cookies open at ConsoleKit
    ck_opens,               \* cookies ConsoleKit has handed out
    ck_closes,              \* ck_close_session calls
    starts,                 \* session_start calls so far
    notified,               \* termination notifications for the last process
    stop_requested,         \* session_stop signalled the last process
    stops,                  \* session_stop calls while the last process ran
    cleanups,               \* cleanup hook runs for the last process
    signals,                \* termination signals sent to the last process
    td_pam,                 \* pam closes made by notifications of the last process
    td_ck,                  \* ck closes made by notifications of the last process
    child,                  \* the forked child: snapshot at fork and its run
    last                    \* the last operation: inputs, calls made, result

vars == <<uid, inherited_cookie, authentication, command, log_file,
          log_file_as_user, is_greeter, console_kit_parameters,
          console_kit_cookie, env, process_command, is_running, pam_opens,
          pam_closes, ck_open, ck_opens, ck_closes, starts, notified,
          stop_requested, stops, cleanups, signals, td_pam, td_ck, child,
          last>>

priv_vars == <<authentication, command, log_file, log_file_as_user,
               is_greeter, console_kit_parameters, console_kit_cookie>>

proc_vars == <<env, process_command, is_running>>

ext_vars == <<pam_opens, pam_closes, ck_open, ck_opens, ck_closes>>

hist_vars == <<starts, notified, stop_requested, stops, cleanups, signals,
               td_pam, td_ck>>

----------------------------------------------------------------------------
(* Bounds *)

MaxStarts == 2      \* session_start calls in one behaviour
MaxRedeliver == 1   \* extra deliveries of one termination notification
MaxStops == 2       \* session_stop calls while one process runs

----------------------------------------------------------------------------
(* Values *)

NULL == <<"NULL">>

Root == 0

\* The service runs as root or as an ordinary user
Uids == {Root, 1000}

PAM == <<"pam">>

\* The identity returned by pam_session_get_user ()
user_name == <<"alice">>
user_home == <<"/home/alice">>
user_shell == <<"/bin/sh">>

DefaultPath == <<"/usr/local/bin", ":", "/usr/bin", ":", "/bin">>

\* Programs g_find_program_in_path () finds in the service's own PATH
InPath == {<<"x">>}

\* Commands a caller configures: resolvable with and without an argument
\* blob, unresolvable, and empty
Commands == { <<"x">>, <<"x", " ", "-a", " ", "b">>, <<"y", " ", "x">>, <<>> }

LogFiles == { <<"/var/log/s.log">> }

CkParameterNames == {"x11-display"}
CkParameterValues == {<<":0">>}

\* The n-th cookie ck_open_session () hands out
Cookie(n) == <<"ck", ToString(n)>>

\* An environment maps names (strings) to values; the empty one
NoEnv == [n \in {} |-> NULL]

\* process_set_env (): g_hash_table_insert, last write wins
process_set_env(e, name, value) ==
    [n \in DOMAIN e \cup {name} |-> IF n = name THEN value ELSE e[n]]

\* process_get_env ()
process_get_env(e, name) == IF name \in DOMAIN e THEN e[name] ELSE NULL

\* session_set_env (): forwards to the Process base object
session_set_env(e, name, value) == process_set_env(e, name, value)

\* session_get_env ()
session_get_env(e, name) == process_get_env(e, name)

----------------------------------------------------------------------------
(* Calls made on the collaborators, in order *)

Call(fn, arg) == [fn |-> fn, arg |-> arg]

RECURSIVE Count(_, _)
Count(calls, fn) ==
    IF calls = <<>> THEN 0
    ELSE (IF Head(calls).fn = fn THEN 1 ELSE 0) + Count(Tail(calls), fn)

Made(calls, fn) == Count(calls, fn) > 0

----------------------------------------------------------------------------
(* Command resolution *)

\* Index of the first occurrence of atom c in s at or after i, 0 if none
RECURSIVE IndexFrom(_, _, _)
IndexFrom(s, c, i) ==
    IF i > Len(s) THEN 0
    ELSE IF s[i] = c THEN i
    ELSE IndexFrom(s, c, i + 1)

\* g_strsplit (string, delimiter, 2): at most two tokens, split at the first
\* delimiter; the empty string gives the empty vector
g_strsplit2(s, delim) ==
    LET i == IndexFrom(s, delim, 1) IN
    IF s = <<>> THEN <<>>
    ELSE IF i = 0 THEN <<s>>
    ELSE <<SubSeq(s, 1, i - 1), SubSeq(s, i + 1, Len(s))>>

\* g_find_program_in_path (): the absolute path, or NULL
g_find_program_in_path(program) ==
    IF program # NULL /\ program \in InPath
    THEN <<"/usr/bin/">> \o program
    ELSE NULL

get_absolute_command(cmd) ==
    LET tokens == g_strsplit2(cmd, " ")
        token0 == IF Len(tokens) >= 1 THEN tokens[1] ELSE NULL
        absolute_binary == g_find_program_in_path(token0)
    IN  IF absolute_binary # NULL
        THEN IF Len(tokens) >= 2
             THEN absolute_binary \o <<" ">> \o tokens[2]
             ELSE absolute_binary
        ELSE NULL

----------------------------------------------------------------------------
(* Collaborators that are not part of session.c *)

\* process_start () of the Process base object: one child per Process, so a
\* launch is refused while a child is running; otherwise fork may fail
process_start(running, fork_ok) == ~running /\ fork_ok

\* pam_session_get_user () and the User accessors
user_uid == <<"uid:alice">>

\* The entries of a GHashTable in iteration order
RECURSIVE TableEntries(_)
TableEntries(t) ==
    IF DOMAIN t = {} THEN <<>>
    ELSE LET k == CHOOSE n \in DOMAIN t : TRUE
         IN  <<<<k, t[k]>>>> \o TableEntries([n \in DOMAIN t \ {k} |-> t[n]])

----------------------------------------------------------------------------
(* session_start and the default start hook *)

\* The parameters session_real_start hands to ck_open_session ()
ck_parameters(greeter, table) ==
    <<<<"unix-user", user_uid>>>>
    \o (IF greeter THEN <<<<"session-type", <<"LoginWindow">>>>>> ELSE <<>>)
    \o TableEntries(table)

\* The rollback of session_real_start when process_start () fails
launch_rollback(s) ==
    [s EXCEPT !.calls = @ \o <<Call("pam_session_close", NULL)>>
                          \o (IF s.uid = Root /\ s.console_kit_cookie # NULL
                              THEN <<Call("ck_close_session", s.console_kit_cookie)>>
                              ELSE <<>>)]

\* Variant: a failed registration leaves the previous cookie in place
open_console_kit_keep_old(s, in) ==
    IF s.uid = Root
    THEN [s EXCEPT !.calls = Append(@, Call("ck_open_session",
                                  ck_parameters(s.is_greeter, s.console_kit_parameters))),
                   !.console_kit_cookie = IF in.ck_cookie = NULL THEN @
                                          ELSE in.ck_cookie]
    ELSE [s EXCEPT !.console_kit_cookie = s.inherited_cookie]

\* The ConsoleKit step of session_real_start: register, or adopt the
\* inherited cookie
open_console_kit(s, in) ==
    IF s.uid = Root
    THEN [s EXCEPT !.calls = Append(@, Call("ck_open_session",
                                  ck_parameters(s.is_greeter, s.console_kit_parameters))),
                   !.console_kit_cookie = in.ck_cookie]
    ELSE [s EXCEPT !.console_kit_cookie = s.inherited_cookie]

\* What session_real_start does when the setup hook returns FALSE
setup_failed(s) == [s EXCEPT !.ret = FALSE]

\* session_real_start after the command was resolved
start_resolved(s, in) ==
    LET s1 == [s EXCEPT !.calls = Append(@, Call("pam_session_open", NULL))]
        s2 == open_console_kit(s1, in)
        s3 == IF s2.console_kit_cookie # NULL
              THEN [s2 EXCEPT !.env = session_set_env(@, <<"XDG_SESSION_COOKIE">>,
                                                      s2.console_kit_cookie)]
              ELSE s2
        s4 == [s3 EXCEPT !.calls = Append(@, Call("setup", NULL))]
        result == process_start(s.is_running, in.fork_ok)
        s5 == [s4 EXCEPT !.calls = Append(@, Call("process_start", NULL)),
                         !.launched = result, !.ret = result]
    IN  IF ~in.setup_ok THEN setup_failed(s4)
        ELSE IF ~result THEN launch_rollback(s5)
        ELSE s5

\* Variant: authentication is opened before the command is resolved
session_real_start_open_first(s, in) ==
    LET absolute_command == get_absolute_command(s.command)
        s1 == [s EXCEPT !.calls = Append(@, Call("pam_session_open", NULL))]
    IN  IF absolute_command = NULL
        THEN [s1 EXCEPT !.ret = FALSE]
        ELSE start_resolved([s EXCEPT !.process_command = absolute_command], in)

\* Variant: the configured command is handed to the process before it is
\* resolved
session_real_start_set_command_first(s, in) ==
    LET absolute_command == get_absolute_command(s.command)
        s0 == [s EXCEPT !.process_command = s.command]
    IN  IF absolute_command = NULL
        THEN [s0 EXCEPT !.ret = FALSE]
        ELSE start_resolved([s0 EXCEPT !.process_command = absolute_command], in)

session_real_start(s, in) ==
    LET absolute_command == get_absolute_command(s.command) IN
    IF absolute_command = NULL
    THEN [s EXCEPT !.ret = FALSE]
    ELSE start_resolved([s EXCEPT !.process_command = absolute_command], in)

\* The POSIX variables session_start seeds
seed_posix(e) ==
    LET e1 == session_set_env(e, <<"PATH">>, DefaultPath)
        e2 == session_set_env(e1, <<"USER">>, user_name)
        e3 == session_set_env(e2, <<"LOGNAME">>, user_name)
        e4 == session_set_env(e3, <<"HOME">>, user_home)
    IN  session_set_env(e4, <<"SHELL">>, user_shell)

\* Variant: the POSIX variables are seeded before the preconditions are
\* checked
session_start_seed_first(s, in) ==
    LET s1 == [s EXCEPT !.env = seed_posix(@)] IN
    IF s.authentication = NULL THEN [s1 EXCEPT !.ret = FALSE]
    ELSE IF s.command = NULL THEN [s1 EXCEPT !.ret = FALSE]
    ELSE session_real_start(s1, in)

session_start(s, in) ==
    IF s.authentication = NULL THEN [s EXCEPT !.ret = FALSE]
    ELSE IF s.command = NULL THEN [s EXCEPT !.ret = FALSE]
    ELSE session_real_start([s EXCEPT !.env = seed_posix(@)], in)

----------------------------------------------------------------------------
(* session_stop and the termination notification *)

\* Variant: stop tears the session down itself
session_stop_teardown(running) ==
    IF ~running
    THEN [ret |-> TRUE, calls |-> <<>>]
    ELSE [ret |-> FALSE,
          calls |-> <<Call("cleanup", NULL), Call("process_signal", <<"SIGTERM">>),
                      Call("pam_session_close", NULL)>>]

\* Variant: stop does not look at the running state
session_stop_unguarded(running) ==
    [ret |-> FALSE,
     calls |-> <<Call("cleanup", NULL), Call("process_signal", <<"SIGTERM">>)>>]

session_stop(running) ==
    IF ~running
    THEN [ret |-> TRUE, calls |-> <<>>]
    ELSE [ret |-> FALSE,
          calls |-> <<Call("cleanup", NULL), Call("process_signal", <<"SIGTERM">>)>>]

\* Variant: the registered session is closed whoever the service runs as
session_stopped_any_uid(u, cookie) ==
    <<Call("pam_session_close", NULL)>>
    \o (IF cookie # NULL THEN <<Call("ck_close_session", cookie)>> ELSE <<>>)

\* The calls session_stopped makes
session_stopped(u, cookie) ==
    <<Call("pam_session_close", NULL)>>
    \o (IF u = Root /\ cookie # NULL
        THEN <<Call("ck_close_session", cookie)>> ELSE <<>>)

\* Variant: the request is forwarded whoever the caller is
session_lock_any_uid(u, cookie, fn) == <<Call(fn, cookie)>>

\* session_lock / session_unlock
session_lock(u, cookie, fn) ==
    IF u = Root THEN <<Call(fn, cookie)>> ELSE <<>>

----------------------------------------------------------------------------
(* The child: session_run, executed in the forked process before exec *)

PKGLIBEXEC_DIR == <<"/usr/lib/lightdm">>

\* System calls of session_run that can fail
Syscalls == {"g_open", "setsid", "chdir", "initgroups", "setgid", "setuid"}

\* Environment lists pam_session_get_envlist () returns (NULL: none)
NoEnvList == <<NULL>>

PamEnvLists ==
    { NoEnvList,
      << <<"HOME", "=", "/pam/home">> >>,
      << <<"PATH", "=", "/pam/bin">>, <<"BROKEN">>, <<"LANG", "=", "C", "=", "1">> >>,
      << <<"SHELL", "=">>, <<"=", "v">> >> }

\* Locales user_get_locale () returns
Locales == { NULL, <<"fr_FR">> }

Ev(call, ok) == [call |-> call, ok |-> ok]

\* A step that cannot stop the child
Do(c, call) ==
    IF c.pc # "run" THEN c ELSE [c EXCEPT !.log = Append(@, Ev(call, TRUE))]

\* A system call whose failure is only logged as a warning
Soft(c, call, fails) ==
    IF c.pc # "run" THEN c
    ELSE [c EXCEPT !.log = Append(@, Ev(call, call \notin fails))]

\* A system call whose failure ends the child with _exit (EXIT_FAILURE)
Fatal(c, call, fails) ==
    IF c.pc # "run" THEN c
    ELSE IF call \in fails
    THEN [c EXCEPT !.log = Append(@, Ev(call, FALSE)), !.pc = "exited"]
    ELSE [c EXCEPT !.log = Append(@, Ev(call, TRUE))]

setup_log_file(c, fails) ==
    IF c.pc # "run" \/ c.log_file = NULL THEN c
    ELSE IF "g_open" \in fails
    THEN [c EXCEPT !.log = Append(@, Ev("g_open", FALSE))]
    ELSE [c EXCEPT !.log = @ \o <<Ev("g_open", TRUE), Ev("dup2", TRUE)>>]

\* Variant: the user id is changed before the group id
change_user_uid_first(c, fails) ==
    IF c.uid = Root
    THEN Fatal(Fatal(Fatal(c, "initgroups", fails), "setuid", fails), "setgid", fails)
    ELSE c

\* The identity change of session_run
change_user(c, fails) ==
    IF c.uid = Root
    THEN Fatal(Fatal(Fatal(c, "initgroups", fails), "setgid", fails), "setuid", fails)
    ELSE c

\* Variant: the first entry that does not parse ends the merge
RECURSIVE apply_pam_env_stop(_, _)
apply_pam_env_stop(e, list) ==
    IF list = <<>> THEN e
    ELSE LET pam_env_vars == g_strsplit2(Head(list), "=")
         IN  IF Len(pam_env_vars) >= 2
             THEN apply_pam_env_stop(session_set_env(e, pam_env_vars[1],
                                                     pam_env_vars[2]),
                                     Tail(list))
             ELSE e

\* Entries of the PAM environment list, applied in order
RECURSIVE apply_pam_env(_, _)
apply_pam_env(e, list) ==
    IF list = <<>> THEN e
    ELSE LET pam_env_vars == g_strsplit2(Head(list), "=")
         IN  apply_pam_env(IF Len(pam_env_vars) >= 2
                           THEN session_set_env(e, pam_env_vars[1], pam_env_vars[2])
                           ELSE e,
                           Tail(list))

set_env_from_authentication(e, pam_env) ==
    IF pam_env # NoEnvList THEN apply_pam_env(e, pam_env) ELSE e

set_locale(e, locale) ==
    IF locale # NULL THEN session_set_env(e, <<"LANG">>, locale) ELSE e

insert_utility_path(e) ==
    LET orig_path == session_get_env(e, <<"PATH">>) IN
    IF orig_path # NULL
    THEN session_set_env(e, <<"PATH">>, PKGLIBEXEC_DIR \o <<":">> \o orig_path)
    ELSE e

\* Variant: the utility directory is inserted before the PAM environment
\* and the locale are applied
child_env_path_first(c, pam_env, locale) ==
    IF c.pc # "run" THEN c
    ELSE [c EXCEPT !.env = set_locale(
                               set_env_from_authentication(insert_utility_path(@),
                                                           pam_env),
                               locale)]

\* The environment steps of session_run, which only a live child reaches
child_env(c, pam_env, locale) ==
    IF c.pc # "run" THEN c
    ELSE [c EXCEPT !.env = insert_utility_path(
                               set_locale(set_env_from_authentication(@, pam_env),
                                          locale))]

\* Process::run of the base class: exec of the command with the environment
process_run(c) ==
    IF c.pc # "run" THEN c
    ELSE [c EXCEPT !.log = Append(@, Ev("exec", TRUE)), !.pc = "exec"]

\* Variant: a failed change of directory is only a warning
session_run_soft_chdir(c, fails, pam_env, locale) ==
    LET c1 == Do(c, "stdin")
        c2 == IF ~c.log_file_as_user THEN setup_log_file(c1, fails) ELSE c1
        c3 == Soft(c2, "setsid", fails)
        c4 == Soft(c3, "chdir", fails)
        c5 == change_user(c4, fails)
        c6 == IF c.log_file_as_user THEN setup_log_file(c5, fails) ELSE c5
        c7 == Do(c6, "pam_session_setup")
        c8 == child_env(c7, pam_env, locale)
    IN  process_run(c8)

\* Variant: a user-owned log file is opened before the identity change
session_run_log_before_drop(c, fails, pam_env, locale) ==
    LET c1 == Do(c, "stdin")
        c2 == IF ~c.log_file_as_user THEN setup_log_file(c1, fails) ELSE c1
        c3 == Soft(c2, "setsid", fails)
        c4 == Fatal(c3, "chdir", fails)
        c5 == IF c.log_file_as_user THEN setup_log_file(c4, fails) ELSE c4
        c6 == change_user(c5, fails)
        c7 == Do(c6, "pam_session_setup")
        c8 == child_env(c7, pam_env, locale)
    IN  process_run(c8)

session_run(c, fails, pam_env, locale) ==
    LET c1 == Do(c, "stdin")
        c2 == IF ~c.log_file_as_user THEN setup_log_file(c1, fails) ELSE c1
        c3 == Soft(c2, "setsid", fails)
        c4 == Fatal(c3, "chdir", fails)
        c5 == change_user(c4, fails)
        c6 == IF c.log_file_as_user THEN setup_log_file(c5, fails) ELSE c5
        c7 == Do(c6, "pam_session_setup")
        c8 == child_env(c7, pam_env, locale)
    IN  process_run(c8)

NoChild ==
    [pc |-> "none", uid |-> Root, log_file |-> NULL, log_file_as_user |-> FALSE,
     env |-> NoEnv, command |-> NULL, log |-> <<>>, fails |-> {},
     pam_env |-> NoEnvList, locale |-> NULL]

\* The child as fork () leaves it: a copy of the service's memory
Forked(s) ==
    [NoChild EXCEPT !.pc = "run", !.uid = s.uid, !.log_file = s.log_file,
                    !.log_file_as_user = s.log_file_as_user, !.env = s.env,
                    !.command = s.process_command]

----------------------------------------------------------------------------
(* State machine *)

NoInputs == [pam_open_ok |-> TRUE, ck_cookie |-> NULL, setup_ok |-> TRUE,
             fork_ok |-> TRUE]

\* The inputs an operation consumed: an input of a call that was not made is
\* kept at its default
Consumed(in, calls) ==
    [pam_open_ok |-> IF Made(calls, "pam_session_open") THEN in.pam_open_ok ELSE TRUE,
     ck_cookie |-> IF Made(calls, "ck_open_session") THEN in.ck_cookie ELSE NULL,
     setup_ok |-> IF Made(calls, "setup") THEN in.setup_ok ELSE TRUE,
     fork_ok |-> IF Made(calls, "process_start") THEN in.fork_ok ELSE TRUE]

Before ==
    [env |-> env, console_kit_cookie |-> console_kit_cookie,
     process_command |-> process_command, is_running |-> is_running,
     console_kit_parameters |-> console_kit_parameters,
     pam_opens |-> pam_opens, pam_closes |-> pam_closes]

Op(op, in, calls, ret) ==
    [op |-> op, in |-> in, calls |-> calls, ret |-> ret, before |-> Before]

\* The session as the handlers see it
World ==
    [uid |-> uid, inherited_cookie |-> inherited_cookie,
     authentication |-> authentication, command |-> command,
     log_file |-> log_file, log_file_as_user |-> log_file_as_user,
     is_greeter |-> is_greeter, console_kit_parameters |-> console_kit_parameters,
     console_kit_cookie |-> console_kit_cookie, env |-> env,
     process_command |-> process_command, is_running |-> is_running,
     calls |-> <<>>, ret |-> TRUE, launched |-> FALSE]

\* Cookies closed by a sequence of calls
RECURSIVE ClosedCookies(_)
ClosedCookies(calls) ==
    IF calls = <<>> THEN {}
    ELSE (IF Head(calls).fn = "ck_close_session" THEN {Head(calls).arg} ELSE {})
         \cup ClosedCookies(Tail(calls))

\* The effect of a handler's calls on PAM and ConsoleKit
Collaborators(calls, in) ==
    LET opened == IF Made(calls, "ck_open_session") /\ in.ck_cookie # NULL
                  THEN {in.ck_cookie} ELSE {}
    IN  /\ pam_opens' = pam_opens + (IF Made(calls, "pam_session_open") /\ in.pam_open_ok
                                     THEN 1 ELSE 0)
        /\ pam_closes' = pam_closes + Count(calls, "pam_session_close")
        /\ ck_opens' = ck_opens + Cardinality(opened)
        /\ ck_open' = (ck_open \cup opened) \ ClosedCookies(calls)
        /\ ck_closes' = ck_closes + Count(calls, "ck_close_session")

\* session_init: everything but the configuration the caller supplies
Constructed ==
    /\ log_file = NULL
    /\ log_file_as_user = FALSE
    /\ is_greeter = FALSE
    /\ console_kit_parameters = NoEnv
    /\ console_kit_cookie = NULL
    /\ env = NoEnv
    /\ process_command = NULL
    /\ is_running = FALSE
    /\ pam_opens = 0
    /\ pam_closes = 0
    /\ ck_open = {}
    /\ ck_opens = 0
    /\ ck_closes = 0
    /\ starts = 0
    /\ notified = 0
    /\ stop_requested = FALSE
    /\ stops = 0
    /\ cleanups = 0
    /\ signals = 0
    /\ td_pam = 0
    /\ td_ck = 0
    /\ child = NoChild
    /\ last = [op |-> "init", in |-> NoInputs, calls |-> <<>>, ret |-> TRUE,
               before |-> [env |-> NoEnv, console_kit_cookie |-> NULL,
                           process_command |-> NULL, is_running |-> FALSE,
                           console_kit_parameters |-> NoEnv,
                           pam_opens |-> 0, pam_closes |-> 0]]

Init ==
    /\ uid \in Uids
    /\ inherited_cookie \in {NULL, <<"inherited">>}
    /\ authentication = NULL
    /\ command = NULL
    /\ Constructed

Set == Op("set", NoInputs, <<>>, TRUE)

SetAuthentication ==
    /\ authentication' = PAM
    /\ last' = Set
    /\ UNCHANGED <<uid, inherited_cookie, command, log_file, log_file_as_user,
                   is_greeter, console_kit_parameters, console_kit_cookie,
                   proc_vars, ext_vars, hist_vars, child>>

SetCommand ==
    /\ \E c \in Commands \cup {NULL} : command' = c
    /\ last' = Set
    /\ UNCHANGED <<uid, inherited_cookie, authentication, log_file,
                   log_file_as_user, is_greeter, console_kit_parameters,
                   console_kit_cookie, proc_vars, ext_vars, hist_vars, child>>

SetLogFile ==
    /\ \E f \in LogFiles \cup {NULL}, as_user \in BOOLEAN :
          /\ log_file' = f
          /\ log_file_as_user' = as_user
    /\ last' = Set
    /\ UNCHANGED <<uid, inherited_cookie, authentication, command, is_greeter,
                   console_kit_parameters, console_kit_cookie, proc_vars,
                   ext_vars, hist_vars, child>>

SetIsGreeter ==
    /\ \E b \in BOOLEAN : is_greeter' = b
    /\ last' = Set
    /\ UNCHANGED <<uid, inherited_cookie, authentication, command, log_file,
                   log_file_as_user, console_kit_parameters, console_kit_cookie,
                   proc_vars, ext_vars, hist_vars, child>>

SetConsoleKitParameter ==
    /\ \E n \in CkParameterNames, v \in CkParameterValues :
          console_kit_parameters' = process_set_env(console_kit_parameters, n, v)
    /\ last' = Set
    /\ UNCHANGED <<uid, inherited_cookie, authentication, command, log_file,
                   log_file_as_user, is_greeter, console_kit_cookie, proc_vars,
                   ext_vars, hist_vars, child>>

Start ==
    /\ starts < MaxStarts
    /\ \E pam_open_ok \in BOOLEAN, ck_cookie \in {NULL, Cookie(ck_opens + 1)},
          setup_ok \in BOOLEAN, fork_ok \in BOOLEAN :
          LET in == [pam_open_ok |-> pam_open_ok, ck_cookie |-> ck_cookie,
                     setup_ok |-> setup_ok, fork_ok |-> fork_ok]
              r == session_start(World, in)
          IN  /\ in = Consumed(in, r.calls)
              /\ console_kit_cookie' = r.console_kit_cookie
              /\ env' = r.env
              /\ process_command' = r.process_command
              /\ is_running' = (is_running \/ r.launched)
              /\ Collaborators(r.calls, in)
              /\ child' = IF r.launched THEN Forked(r) ELSE child
              /\ notified' = IF r.launched THEN 0 ELSE notified
              /\ stop_requested' = IF r.launched THEN FALSE ELSE stop_requested
              /\ stops' = IF r.launched THEN 0 ELSE stops
              /\ cleanups' = IF r.launched THEN 0 ELSE cleanups
              /\ signals' = IF r.launched THEN 0 ELSE signals
              /\ td_pam' = IF r.launched THEN 0 ELSE td_pam
              /\ td_ck' = IF r.launched THEN 0 ELSE td_ck
              /\ last' = Op("start", in, r.calls, r.ret)
    /\ starts' = starts + 1
    /\ UNCHANGED <<uid, inherited_cookie, authentication, command, log_file,
                   log_file_as_user, is_greeter, console_kit_parameters>>

\* Variant: a stop already requested is not repeated
StopGuarded ==
    LET r == IF stop_requested THEN [ret |-> FALSE, calls |-> <<>>]
             ELSE session_stop(is_running) IN
    /\ is_running => stops < MaxStops
    /\ stop_requested' = (stop_requested \/ Made(r.calls, "process_signal"))
    /\ stops' = stops + (IF is_running THEN 1 ELSE 0)
    /\ cleanups' = cleanups + Count(r.calls, "cleanup")
    /\ signals' = signals + Count(r.calls, "process_signal")
    /\ Collaborators(r.calls, NoInputs)
    /\ last' = Op("stop", NoInputs, r.calls, r.ret)
    /\ UNCHANGED <<uid, inherited_cookie, priv_vars, proc_vars, starts,
                   notified, td_pam, td_ck, child>>

Stop ==
    LET r == session_stop(is_running) IN
    /\ is_running => stops < MaxStops
    /\ stop_requested' = (stop_requested \/ Made(r.calls, "process_signal"))
    /\ stops' = stops + (IF is_running THEN 1 ELSE 0)
    /\ cleanups' = cleanups + Count(r.calls, "cleanup")
    /\ signals' = signals + Count(r.calls, "process_signal")
    /\ Collaborators(r.calls, NoInputs)
    /\ last' = Op("stop", NoInputs, r.calls, r.ret)
    /\ UNCHANGED <<uid, inherited_cookie, priv_vars, proc_vars, starts,
                   notified, td_pam, td_ck, child>>

\* The handler the Process base object runs on a termination notification
Notify(op) ==
    LET calls == session_stopped(uid, console_kit_cookie) IN
    /\ is_running' = FALSE
    /\ Collaborators(calls, NoInputs)
    /\ notified' = notified + 1
    /\ td_pam' = td_pam + Count(calls, "pam_session_close")
    /\ td_ck' = td_ck + Count(calls, "ck_close_session")
    /\ last' = Op(op, NoInputs, calls, TRUE)
    /\ child' = NoChild
    /\ UNCHANGED <<uid, inherited_cookie, priv_vars, env, process_command,
                   starts, stop_requested, stops, cleanups, signals>>

\* The child terminated: the Process base object clears its pid and notifies
Stopped ==
    /\ is_running
    /\ Notify("stopped")

\* The same notification observed once more
StoppedAgain ==
    /\ ~is_running
    /\ notified >= 1
    /\ notified <= MaxRedeliver
    /\ Notify("stopped_again")

Lock ==
    /\ \E fn \in {"ck_lock_session", "ck_unlock_session"} :
          last' = Op(IF fn = "ck_lock_session" THEN "lock" ELSE "unlock", NoInputs,
                     session_lock(uid, console_kit_cookie, fn), TRUE)
    /\ UNCHANGED <<uid, inherited_cookie, priv_vars, proc_vars, ext_vars,
                   hist_vars, child>>

\* The system calls of a run that failed
Failed(log) == {log[i].call : i \in {j \in DOMAIN log : ~log[j].ok}}

\* The forked child runs session_run.  After fork () the child shares no
\* state with the service, so its run is a function of the snapshot.  Only
\* the failures the run met and the values it read are inputs.
Run ==
    /\ child.pc = "run"
    /\ \E fails \in SUBSET Syscalls, pam_env \in PamEnvLists, locale \in Locales :
          LET c == session_run(child, fails, pam_env, locale) IN
          /\ fails = Failed(c.log)
          /\ c.pc # "exec" => pam_env = NoEnvList /\ locale = NULL
          /\ child' = [c EXCEPT !.fails = fails, !.pam_env = pam_env,
                                !.locale = locale]
    /\ UNCHANGED <<uid, inherited_cookie, priv_vars, proc_vars, ext_vars,
                   hist_vars, last>>

Next ==
    \/ SetAuthentication
    \/ SetCommand
    \/ SetIsGreeter
    \/ SetConsoleKitParameter
    \/ Start
    \/ Stop
    \/ Stopped
    \/ Lock

Spec == Init /\ [][Next]_vars

\* The same machine when a notification can be observed more than once
NextRedeliver == Next \/ StoppedAgain

SpecRedeliver == Init /\ [][NextRedeliver]_vars

\* From configuration to exec: the log file is configured, the session is
\* started and the forked child runs.  The service handlers never read the
\* log file settings, so only this specification varies them.
InitChild ==
    /\ uid \in Uids
    /\ inherited_cookie \in {NULL, <<"inherited">>}
    /\ authentication = PAM
    /\ command \in {c \in Commands : get_absolute_command(c) # NULL}
    /\ Constructed

\* The one start whose child is followed
FirstStart ==
    /\ starts = 0
    /\ Start

NextChild ==
    \/ SetLogFile
    \/ FirstStart
    \/ Run

SpecChild == InitChild /\ [][NextChild]_vars

----------------------------------------------------------------------------
(* Properties *)

StartFailedAtLaunch ==
    /\ last.op = "start"
    /\ Made(last.calls, "process_start")
    /\ ~last.ret

\* C1: when process launch fails during an elevated start after
\* authentication was opened and a cookie obtained, authentication is closed
\* exactly once, the cookie is closed at the registrar exactly once, start
\* returns failure and the stored cookie is absent afterwards.
C1_LaunchFailureRollback ==
    (StartFailedAtLaunch /\ uid = Root /\ last.in.pam_open_ok
        /\ last.in.ck_cookie # NULL)
    => /\ Count(last.calls, "pam_session_close") = 1
       /\ Count(last.calls, "ck_close_session") = 1
       /\ ClosedCookies(last.calls) = {last.in.ck_cookie}
       /\ ~last.ret
       /\ console_kit_cookie = NULL

SetupHookFailed ==
    /\ last.op = "start"
    /\ Made(last.calls, "setup")
    /\ ~last.in.setup_ok

\* C2: when the setup hook reports failure, start fails, the process is never
\* launched, and what the attempt acquired is released: authentication is
\* closed and a session registered by the attempt is closed.
C2_SetupFailureRollback ==
    SetupHookFailed
    => /\ ~last.ret
       /\ ~Made(last.calls, "process_start")
       /\ Count(last.calls, "pam_session_close") = 1
       /\ (uid = Root /\ last.in.ck_cookie # NULL
              => last.in.ck_cookie \notin ck_open)

\* C3: the termination notification of a process tears down exactly once
\* after stop (), and however often it is delivered for the same process the
\* authentication close and the registrar close happen at most once each.
C3_TeardownAtMostOnce ==
    /\ td_pam <= 1
    /\ td_ck <= 1
    /\ (stop_requested /\ last.op \in {"stopped", "stopped_again"}
           => /\ td_pam = 1
              /\ (uid = Root /\ last.before.console_kit_cookie # NULL
                     => td_ck = 1))

\* C4: the termination notification clears the stored cookie, and in every
\* state an elevated session's stored cookie is non-null only while that
\* cookie is registered.
C4_CookieOnlyWhileRegistered ==
    /\ (last.op = "stopped" /\ uid = Root => console_kit_cookie = NULL)
    /\ (uid = Root /\ console_kit_cookie # NULL => console_kit_cookie \in ck_open)

\* C5: when opening the authentication handle fails, start returns failure
\* and requests no registration, runs no setup hook and launches no process.
C5_AuthenticationOpenFailurePropagates ==
    (last.op = "start" /\ Made(last.calls, "pam_session_open")
        /\ ~last.in.pam_open_ok)
    => /\ ~last.ret
       /\ ~Made(last.calls, "ck_open_session")
       /\ ~Made(last.calls, "setup")
       /\ ~Made(last.calls, "process_start")

\* What an operation left untouched of the session and its process
Untouched ==
    /\ env = last.before.env
    /\ console_kit_cookie = last.before.console_kit_cookie
    /\ process_command = last.before.process_command
    /\ is_running = last.before.is_running

\* C6: start () with the authentication handle or the command unset fails at
\* once with no side effects: no variable is seeded, no collaborator is
\* called, no process is launched and the stored cookie is unchanged.
C6_MissingPreconditionNoSideEffects ==
    (last.op = "start" /\ (authentication = NULL \/ command = NULL))
    => /\ ~last.ret
       /\ last.calls = <<>>
       /\ Untouched

C6_Witness ==
    /\ last.op = "start"
    /\ authentication # NULL
    /\ command = NULL
    /\ console_kit_cookie # NULL
    /\ env # NoEnv

\* The program token of a command: what precedes its first space
ProgramToken(cmd) ==
    LET n == CHOOSE k \in 0..Len(cmd) :
                 /\ \A i \in 1..k : cmd[i] # " "
                 /\ (k = Len(cmd) \/ cmd[k + 1] = " ")
    IN  SubSeq(cmd, 1, n)

Unresolvable ==
    /\ authentication # NULL
    /\ command # NULL
    /\ ProgramToken(command) \notin InPath

\* C7: for every command whose program token is not found in the search
\* path, start () fails and opens neither authentication nor a registrar
\* session, runs no setup hook and launches no process.
C7_CommandNotFound ==
    (last.op = "start" /\ Unresolvable)
    => /\ ~last.ret
       /\ last.calls = <<>>
       /\ is_running = last.before.is_running
       /\ console_kit_cookie = last.before.console_kit_cookie

C7_Witness ==
    /\ last.op = "start"
    /\ Unresolvable
    /\ command # <<>>
    /\ uid = Root

\* Position of the first event of a call in a child's log, 0 if none
RECURSIVE PosFrom(_, _, _)
PosFrom(log, call, i) ==
    IF i > Len(log) THEN 0
    ELSE IF log[i].call = call THEN i
    ELSE PosFrom(log, call, i + 1)

Pos(log, call) == PosFrom(log, call, 1)

Times(log, call) == Cardinality({i \in DOMAIN log : log[i].call = call})

\* Call a precedes call b in the log and succeeded, whenever b is there
Before2(log, a, b) ==
    Pos(log, b) > 0
    => /\ Pos(log, a) > 0
       /\ Pos(log, a) < Pos(log, b)
       /\ log[Pos(log, a)].ok

Triad == {"initgroups", "setgid", "setuid"}

\* C8: an elevated child initialises the supplementary groups, then changes
\* the group id, then the user id, each at most once and all before exec; a
\* failure of any of the three ends the child at once and nothing is exec'd.
C8_PrivilegeDropOrder ==
    (child.pc \in {"exec", "exited"} /\ child.uid = Root)
    => /\ \A c \in Triad \cup {"exec"} : Times(child.log, c) <= 1
       /\ Before2(child.log, "initgroups", "setgid")
       /\ Before2(child.log, "setgid", "setuid")
       /\ Before2(child.log, "setuid", "exec")
       /\ \A c \in Triad \cap Failed(child.log) :
             /\ child.pc = "exited"
             /\ Pos(child.log, "exec") = 0
             /\ child.log[Len(child.log)].call = c

C8_Witness ==
    /\ child.uid = Root
    /\ child.pc = "exited"
    /\ "setuid" \in Failed(child.log)

\* C9: stop () on a running process runs the cleanup hook once, sends one
\* termination signal, returns FALSE and tears nothing down itself.
C9_StopWhileRunning ==
    (last.op = "stop" /\ last.before.is_running)
    => /\ Count(last.calls, "cleanup") = 1
       /\ Count(last.calls, "process_signal") = 1
       /\ Len(last.calls) = 2
       /\ ~last.ret
       /\ Untouched

C9_Witness ==
    /\ last.op = "stop"
    /\ last.before.is_running
    /\ uid = Root
    /\ console_kit_cookie # NULL

\* C10: stop () on a process that is not running returns TRUE at once, runs
\* no cleanup hook, sends no signal and closes nothing.
C10_StopWhenNotRunning ==
    (last.op = "stop" /\ ~last.before.is_running)
    => /\ last.ret
       /\ last.calls = <<>>
       /\ Untouched

C10_Witness ==
    /\ last.op = "stop"
    /\ ~last.before.is_running
    /\ notified >= 1

\* The entries of a PAM environment list that are name=value for this name,
\* the name being what precedes the first "="
EntriesFor(list, name) ==
    IF list = NoEnvList THEN {}
    ELSE {i \in DOMAIN list :
            \E k \in DOMAIN list[i] :
               /\ list[i][k] = "="
               /\ \A j \in 1..(k - 1) : list[i][j] # "="
               /\ SubSeq(list[i], 1, k - 1) = name}

Overridden(list, name) == EntriesFor(list, name) # {}

\* The value the last such entry gives: what follows its first "="
PamValue(list, name) ==
    LET i == CHOOSE m \in EntriesFor(list, name) :
                 \A n \in EntriesFor(list, name) : n <= m
        k == CHOOSE m \in DOMAIN list[i] :
                 list[i][m] = "=" /\ \A j \in 1..(m - 1) : list[i][j] # "="
    IN  SubSeq(list[i], k + 1, Len(list[i]))

\* Baseline value, replaced by the authentication's override if it gives one
Layered(list, name, baseline) ==
    IF Overridden(list, name) THEN PamValue(list, name) ELSE baseline

\* C11: the environment the child execs with is layered baseline, then
\* authentication overrides, then the locale's LANG, then the utility
\* directory in front of PATH: an override of a baseline key replaces it, the
\* locale replaces an authentication LANG, and PATH is the utility directory
\* prepended to the authentication's PATH if given, else to the safe default.
C11_EnvironmentOverrideOrder ==
    child.pc = "exec"
    => /\ child.env[<<"HOME">>] = Layered(child.pam_env, <<"HOME">>, user_home)
       /\ child.env[<<"USER">>] = Layered(child.pam_env, <<"USER">>, user_name)
       /\ child.env[<<"LOGNAME">>] = Layered(child.pam_env, <<"LOGNAME">>, user_name)
       /\ child.env[<<"SHELL">>] = Layered(child.pam_env, <<"SHELL">>, user_shell)
       /\ child.env[<<"PATH">>] =
             PKGLIBEXEC_DIR \o <<":">>
                 \o Layered(child.pam_env, <<"PATH">>, DefaultPath)
       /\ IF child.locale # NULL
          THEN child.env[<<"LANG">>] = child.locale
          ELSE IF Overridden(child.pam_env, <<"LANG">>)
          THEN child.env[<<"LANG">>] = PamValue(child.pam_env, <<"LANG">>)
          ELSE <<"LANG">> \notin DOMAIN child.env

C11_Witness ==
    /\ child.pc = "exec"
    /\ Overridden(child.pam_env, <<"PATH">>)
    /\ Overridden(child.pam_env, <<"LANG">>)
    /\ child.locale # NULL
    /\ child.env[<<"LANG">>] # PamValue(child.pam_env, <<"LANG">>)

\* C12: lock () and unlock () make no registrar call without elevated
\* privilege, in any state; with it each forwards exactly one request, of
\* its own kind, carrying the stored cookie.
C12_LockOnlyWhenElevated ==
    last.op \in {"lock", "unlock"}
    => IF uid # Root
       THEN last.calls = <<>>
       ELSE /\ Len(last.calls) = 1
            /\ last.calls[1].fn = (IF last.op = "lock" THEN "ck_lock_session"
                                   ELSE "ck_unlock_session")
            /\ last.calls[1].arg = console_kit_cookie
            /\ console_kit_cookie = last.before.console_kit_cookie

C12_Witness ==
    /\ last.op = "unlock"
    /\ uid = Root
    /\ console_kit_cookie # NULL
    /\ is_running

\* The unprivileged case of the same claim is reached as well
C12_WitnessUnprivileged ==
    /\ last.op = "lock"
    /\ uid # Root
    /\ console_kit_cookie # NULL

XDG == <<"XDG_SESSION_COOKIE">>

RegistrationFailed ==
    /\ last.op = "start"
    /\ uid = Root
    /\ Made(last.calls, "ck_open_session")
    /\ last.in.ck_cookie = NULL

\* C13: when an elevated start cannot register at ConsoleKit it goes on: the
\* stored cookie is absent, the step sets no XDG_SESSION_COOKIE, the setup
\* hook and the launch still happen, and neither the rollback nor a later
\* termination with no cookie closes anything at the registrar; a cookie
\* that does exist is in the environment as XDG_SESSION_COOKIE at launch.
C13_RegistrationIsBestEffort ==
    /\ RegistrationFailed
       => /\ console_kit_cookie = NULL
          /\ process_get_env(env, XDG) = process_get_env(last.before.env, XDG)
          /\ Made(last.calls, "setup")
          /\ (last.in.setup_ok => Made(last.calls, "process_start"))
          /\ (last.in.setup_ok /\ last.in.fork_ok /\ ~last.before.is_running
                 => last.ret /\ is_running)
          /\ ~Made(last.calls, "ck_close_session")
    /\ (last.op = "stopped" /\ uid = Root /\ last.before.console_kit_cookie = NULL)
       => ~Made(last.calls, "ck_close_session")
    /\ (last.op = "start" /\ Made(last.calls, "process_start")
           /\ console_kit_cookie # NULL)
       => /\ process_get_env(env, XDG) = console_kit_cookie
          /\ (last.ret => process_get_env(child.env, XDG) = console_kit_cookie)

C13_Witness ==
    /\ RegistrationFailed
    /\ last.ret
    /\ last.before.console_kit_cookie # NULL

RegistrarCalls ==
    {"ck_open_session", "ck_close_session", "ck_lock_session", "ck_unlock_session"}

\* C14: without elevated privilege start adopts the inherited
\* XDG_SESSION_COOKIE as the stored cookie, and over any sequence of
\* operations the registrar is never asked to open or close a session, while
\* authentication is still closed by the rollback and by the termination
\* notification.
C14_UnprivilegedNeverTouchesRegistrar ==
    uid # Root
    => /\ ck_opens = 0
       /\ ck_closes = 0
       /\ \A i \in DOMAIN last.calls : last.calls[i].fn \notin RegistrarCalls
       /\ (last.op = "start" /\ Made(last.calls, "pam_session_open")
              => console_kit_cookie = inherited_cookie)
       /\ (StartFailedAtLaunch => Count(last.calls, "pam_session_close") = 1)
       /\ (last.op = "stopped" => Count(last.calls, "pam_session_close") = 1)

C14_Witness ==
    /\ uid # Root
    /\ inherited_cookie # NULL
    /\ console_kit_cookie = inherited_cookie
    /\ last.op = "stopped"
    /\ stop_requested

Finished == child.pc \in {"exec", "exited"}

\* C15: the child changes to the home directory after detaching into a new
\* session and before any identity change; a failure of it ends the child at
\* once, with no identity change and no exec, while a failure to detach does
\* not stop the child.
C15_WorkingDirectoryBeforeIdentity ==
    Finished
    => /\ Times(child.log, "setsid") = 1
       /\ Times(child.log, "chdir") = 1
       /\ Pos(child.log, "setsid") < Pos(child.log, "chdir")
       /\ \A c \in Triad \cup {"exec"} : Before2(child.log, "chdir", c)
       /\ "chdir" \in Failed(child.log)
             => /\ child.pc = "exited"
                /\ child.log[Len(child.log)].call = "chdir"
                /\ \A c \in Triad \cup {"exec"} : Pos(child.log, c) = 0
       /\ Failed(child.log) \subseteq {"setsid", "g_open"} => child.pc = "exec"

C15_Witness ==
    /\ Finished
    /\ child.uid = Root
    /\ Failed(child.log) = {"setsid", "chdir"}

\* A failure to detach alone leaves the child running to exec
C15_WitnessDetach ==
    /\ child.pc = "exec"
    /\ child.uid = Root
    /\ "setsid" \in Failed(child.log)

Succeeded(log, call) == Pos(log, call) > 0 /\ log[Pos(log, call)].ok

\* What holds of the log file whether or not the child gets to open it
LogFileCommon ==
    /\ Times(child.log, "dup2") = (IF Succeeded(child.log, "g_open") THEN 1 ELSE 0)
    /\ Before2(child.log, "g_open", "dup2")
    /\ (~child.log_file_as_user /\ Pos(child.log, "g_open") > 0)
          => \A c \in Triad \cup {"setsid", "chdir"} :
                Pos(child.log, c) > 0 => Pos(child.log, "g_open") < Pos(child.log, c)
    /\ (Failed(child.log) \subseteq {"g_open", "setsid"}) => child.pc = "exec"

\* C16: the log file is opened exactly once per child, before the identity
\* change when it is not user-owned and only after the user id was changed
\* when it is user-owned; with no log file nothing is redirected, and a
\* failed open does not keep the command from being exec'd.
C16_LogFileOpenedOnce ==
    Finished
    => IF child.log_file = NULL
       THEN Times(child.log, "g_open") = 0 /\ Times(child.log, "dup2") = 0
       ELSE /\ Times(child.log, "g_open") = 1
            /\ child.log_file_as_user => Before2(child.log, "setuid", "g_open")
            /\ child.log_file_as_user => Succeeded(child.log, "setuid")
            /\ LogFileCommon

\* The child got as far as the place where a user-owned log file is opened
ReachedUserLog ==
    /\ Succeeded(child.log, "chdir")
    /\ child.uid = Root => Succeeded(child.log, "setuid")

\* C16 as the code has it: the log file is opened at most once per child; a
\* log file that is not user-owned is opened in every child, first of all; a
\* user-owned one is opened exactly in the children that get past the change
\* of directory and, when elevated, past a successful change of user id.
C16_LogFileOpenedAtItsPoint ==
    Finished
    => IF child.log_file = NULL
       THEN Times(child.log, "g_open") = 0 /\ Times(child.log, "dup2") = 0
       ELSE /\ Times(child.log, "g_open") <= 1
            /\ ~child.log_file_as_user => Times(child.log, "g_open") = 1
            /\ child.log_file_as_user
                  => /\ Times(child.log, "g_open") = 1 <=> ReachedUserLog
                     /\ Before2(child.log, "chdir", "g_open")
                     /\ child.uid = Root => Before2(child.log, "setuid", "g_open")
            /\ LogFileCommon

C16_Witness ==
    /\ child.pc = "exec"
    /\ child.uid = Root
    /\ child.log_file # NULL
    /\ child.log_file_as_user
    /\ "g_open" \in Failed(child.log)

HasEquals(entry) == \E k \in DOMAIN entry : entry[k] = "="

\* The entries of a list with no "=" in them
Malformed(list) ==
    IF list = NoEnvList THEN {} ELSE {i \in DOMAIN list : ~HasEquals(list[i])}

\* The names the name=value entries of a list give
WellFormedNames(list) ==
    IF list = NoEnvList THEN {}
    ELSE {SubSeq(list[i], 1, IndexFrom(list[i], "=", 1) - 1) :
            i \in {j \in DOMAIN list : HasEquals(list[j])}}

\* C17: merging the authentication's environment, an entry with no "=" is
\* skipped: it adds and changes no variable and does not stop the child, and
\* the name=value entries before and after it are applied, each split at its
\* first "=".  (env is the environment the child was forked with.)
C17_MalformedEntrySkipped ==
    child.pc = "exec"
    => /\ DOMAIN child.env =
             DOMAIN env \cup WellFormedNames(child.pam_env)
                 \cup (IF child.locale # NULL THEN {<<"LANG">>} ELSE {})
       /\ \A n \in DOMAIN child.env \ {<<"PATH">>, <<"LANG">>} :
             child.env[n] = Layered(child.pam_env, n, process_get_env(env, n))
       /\ Overridden(child.pam_env, <<"PATH">>)
             => child.env[<<"PATH">>] =
                   PKGLIBEXEC_DIR \o <<":">> \o PamValue(child.pam_env, <<"PATH">>)
       /\ (child.locale = NULL /\ Overridden(child.pam_env, <<"LANG">>))
             => child.env[<<"LANG">>] = PamValue(child.pam_env, <<"LANG">>)
       /\ \A n \in WellFormedNames(child.pam_env) : Overridden(child.pam_env, n)

C17_Witness ==
    /\ child.pc = "exec"
    /\ Malformed(child.pam_env) # {}
    /\ child.locale = NULL
    /\ child.env[<<"LANG">>] = <<"C", "=", "1">>
    /\ child.env[<<"PATH">>] = PKGLIBEXEC_DIR \o <<":", "/pam/bin">>

\* C18: under elevated execution, over any sequence of start, stop and
\* termination notification, at most one session opened by this Session at
\* the registrar is not yet closed, and at most one authentication open is
\* not yet matched by a close.
C18_AtMostOneOutstanding ==
    uid = Root
    => /\ Cardinality(ck_open) <= 1
       /\ pam_opens - pam_closes <= 1

\* C19: every stop () made while the process runs, a second or later one
\* before the termination notification included, runs the cleanup hook and
\* sends a termination signal again and returns FALSE; after n such calls
\* the cleanup hook has run n times and n signals were sent.
C19_EveryStopRepeats ==
    /\ cleanups = stops
    /\ signals = stops
    /\ (last.op = "stop" /\ last.before.is_running /\ stops >= 2)
       => /\ Made(last.calls, "cleanup")
          /\ Made(last.calls, "process_signal")
          /\ ~last.ret

C19_Witness ==
    /\ last.op = "stop"
    /\ is_running
    /\ stops = 2
    /\ cleanups = 2
    /\ signals = 2

\* The variables session_start seeds, with the values it gives them
Baseline ==
    [n \in {<<"PATH">>, <<"USER">>, <<"LOGNAME">>, <<"HOME">>, <<"SHELL">>} |->
        IF n = <<"PATH">> THEN DefaultPath
        ELSE IF n \in {<<"USER">>, <<"LOGNAME">>} THEN user_name
        ELSE IF n = <<"HOME">> THEN user_home
        ELSE user_shell]

\* C20: when start () fails because the command cannot be resolved, it has
\* changed nothing but the five seeded variables PATH, USER, LOGNAME, HOME
\* and SHELL: every other variable, the process command, the stored cookie,
\* the ConsoleKit parameters and the authentication's open and close counts
\* are as before.
C20_CommandNotFoundFrame ==
    (last.op = "start" /\ Unresolvable)
    => /\ ~last.ret
       /\ DOMAIN env = DOMAIN last.before.env \cup DOMAIN Baseline
       /\ \A n \in DOMAIN env :
             env[n] = IF n \in DOMAIN Baseline THEN Baseline[n]
                      ELSE last.before.env[n]
       /\ process_command = last.before.process_command
       /\ console_kit_cookie = last.before.console_kit_cookie
       /\ console_kit_parameters = last.before.console_kit_parameters
       /\ pam_opens = last.before.pam_opens
       /\ pam_closes = last.before.pam_closes

\* A failed resolution after an earlier start registered and launched
C20_Witness ==
    /\ last.op = "start"
    /\ Unresolvable
    /\ process_command # NULL
    /\ console_kit_cookie # NULL
    /\ console_kit_parameters # NoEnv
    /\ pam_opens > pam_closes
    /\ <<"XDG_SESSION_COOKIE">> \in DOMAIN env

\* A failed resolution on a fresh session: only the seeded variables appear
C20_WitnessFresh ==
    /\ last.op = "start"
    /\ Unresolvable
    /\ last.before.env = NoEnv
    /\ env = Baseline

====
